---- MODULE Spec2Model ----
(***************************************************************************)
(* Model of plexsearch/core.py: the single-query path and the interactive  *)
(* loop (main, handle_interactive_mode, handle_search), the two renderers  *)
(* (handle_no_stream_search, handle_streaming_search) and the SIGINT       *)
(* handler.                                                                *)
(*                                                                         *)
(* Text is a sequence of one-character strings, so that strip(), lower()   *)
(* and concatenation are computed and not assumed.                         *)
(*                                                                         *)
(* perform_search, _build_api_payload and parse_arguments are used by      *)
(* core.py but defined elsewhere in the package; they are modelled from    *)
(* the specification and from tests/test_core.py::test_payload_is_correct. *)
(***************************************************************************)
EXTENDS Integers, Sequences, FiniteSets, TLC

\* ---------------------------------------------------------------- bounds
\* inputs read from the prompt in one session
MaxInputs == 2
\* fragments the remote API produces for one request
MaxChunks == 2

\* ------------------------------------------------------------------ text
Whitespace == {" ", "\t"}

EXIT == <<"e", "x", "i", "t">>

\* the inputs a user types at the prompt
Inputs ==
  { <<>>, <<" ">>, <<"\t", " ">>,
    <<"e", "x", "i", "t">>, <<"E", "X", "I", "T">>, <<"E", "x", "I", "t">>,
    <<"q">> }

\* the query given on the command line (args.query joined), single-query mode
CliQueries == { <<"q">> }

\* the fragments the remote API yields
Fragments == { <<>>, <<"a">>, <<"b">> }

\* the exception messages a failed search carries
Errors == { <<"E", "r", "r">> }

\* str.lower() on one character
LowerChar(c) ==
  CASE c = "E" -> "e"
    [] c = "X" -> "x"
    [] c = "I" -> "i"
    [] c = "T" -> "t"
    [] OTHER -> c

\* str.lower()
Lower(s) == [i \in 1..Len(s) |-> LowerChar(s[i])]

RECURSIVE LStrip(_)
LStrip(s) ==
  IF s # <<>> /\ Head(s) \in Whitespace THEN LStrip(Tail(s)) ELSE s

RECURSIVE RStrip(_)
RStrip(s) ==
  IF s # <<>> /\ s[Len(s)] \in Whitespace
    THEN RStrip(SubSeq(s, 1, Len(s) - 1)) ELSE s

\* str.strip()
Strip(s) == RStrip(LStrip(s))

\* user_input.strip() == ""
IsBlankNoStrip(user_input) == user_input = <<>>
IsBlank(user_input) == Strip(user_input) = <<>>

\* user_input.lower() == "exit"
IsExitCaseSensitive(user_input) == user_input = EXIT
IsExit(user_input) == Lower(user_input) = EXIT

\* "".join(buffer)
RECURSIVE JoinReversed(_)
JoinReversed(buffer) ==
  IF buffer = <<>> THEN <<>> ELSE JoinReversed(Tail(buffer)) \o Head(buffer)
RECURSIVE Join(_)
Join(buffer) ==
  IF buffer = <<>> THEN <<>> ELSE Head(buffer) \o Join(Tail(buffer))

\* accumulated_text += chunk
AccumulateReplace(accumulated, chunk) == chunk
Accumulate(accumulated, chunk) == accumulated \o chunk

\* f"Perplexity: {content}": the label is one token in front of the text
Label == <<"Perplexity: ">>
Labelled(content) == Label \o content

\* Spinner("dots", text="Searching...")
Spinner == <<"Searching...">>

\* ----------------------------------------------------------------- turns
UserTurn(content) == [role |-> "user", content |-> content]
AssistantTurn(content) == [role |-> "assistant", content |-> content]
SystemTurn == [role |-> "system", content |-> <<"s">>]

\* context.append(turn)
AppendTurnInFront(ctx, turn) == <<turn>> \o ctx
AppendTurn(ctx, turn) == Append(ctx, turn)

\* _build_api_payload(query, model, stream, show_citations)["messages"]
BuildApiPayloadMessages(q) == <<UserTurn(q)>>

\* handle_search: payload["messages"] after "if context: payload[...] = context"
PayloadMessages(q, ctx) ==
  IF ctx # <<>> THEN ctx ELSE BuildApiPayloadMessages(q)

\* perform_search(query, ..., context): the message list of the request
ApiMessages(q, ctx) == <<SystemTurn>> \o ctx \o <<UserTurn(q)>>

\* args.no_stream or os.environ.get("OR_APP_NAME") == "Aider"
NoStream(a, aider) == a.no_stream \/ aider

\* main's exit status: sys.exit(1) in the except branch, 0 on return
MainExitAlwaysZero(raised) == 0
MainExit(raised) == IF raised THEN 1 ELSE 0

\* ----------------------------------------------------------------- state
VARIABLES
  pc,               \* "start", "prompt", "fetch", "exited"
  args,             \* [interactive, query, no_stream]
  env_aider,        \* OR_APP_NAME == "Aider"
  context,          \* the list of Turns of the interactive session
  user_input,       \* the last line read at the prompt
  query,            \* the query of the request in flight
  no_stream,        \* the render mode handle_search selected
  sent,             \* the message list of the last request to the API
  requests,         \* number of requests issued to the API
  chunks,           \* fragments the API produced for the current request
  buffer,           \* handle_no_stream_search: buffer
  accumulated_text, \* handle_streaming_search: accumulated_text
  live,             \* the renderable of the Live display
  screen,           \* what the Live region shows (last refresh)
  printed,          \* console.print output since the last console.clear()
  stderr,           \* lines printed to sys.stderr
  renderer,         \* "idle", "running", "returned", "raised"
  content,          \* the text the renderer returned
  exit_code,        \* <<>> while running, <<status>> after exit
  last,             \* the last event of the session
  prev,             \* context and requests when the last input was read
  inputs,           \* number of inputs read
  successes         \* number of successful round trips

vars == <<pc, args, env_aider, context, user_input, query, no_stream, sent,
          requests, chunks, buffer, accumulated_text, live, screen, printed,
          stderr, renderer, content, exit_code, last, prev, inputs, successes>>

\* state of the transcript logger (log_conversation, _write_to_markdown_file)
VARIABLES
  lpc,          \* "idle", "start", "logged", "transcribed", "read", "aborted"
  messages,     \* the list of Turns handed to the logger
  log_file,     \* the characters of the line-oriented log file
  md_file,      \* the characters of the Markdown transcript
  log_printed,  \* console.print output of the logger
  log_raised,   \* an exception left the logger
  log_fault,    \* the fault log_conversation met: "none", "open", "write"
  md_fault,     \* the fault _write_to_markdown_file met
  log_before,   \* the log file before log_conversation ran
  logged_back   \* the Turns read back from the log file

logvars == <<lpc, messages, log_file, md_file, log_printed, log_raised,
             log_fault, md_fault, log_before, logged_back>>

\* the logger is not running: core.py's session never calls it
LogIdle ==
  /\ lpc = "idle"
  /\ messages = <<>>
  /\ log_file = <<>>
  /\ md_file = <<>>
  /\ log_printed = <<>>
  /\ log_raised = FALSE
  /\ log_fault = "none"
  /\ md_fault = "none"
  /\ log_before = <<>>
  /\ logged_back = <<>>

Info(t) == [kind |-> "info", text |-> t]
ErrorLine(e) == [kind |-> "error", text |-> e]
Response(t) == [kind |-> "response", text |-> t]

\* the session part of the initial state: main has not run yet
SessionInit ==
  /\ pc = "start"
  /\ args \in
       { [interactive |-> TRUE, query |-> <<>>, no_stream |-> ns]
           : ns \in BOOLEAN }
       \cup
       { [interactive |-> FALSE, query |-> q, no_stream |-> ns]
           : q \in CliQueries, ns \in BOOLEAN }
  /\ env_aider \in BOOLEAN
  /\ context = <<>>
  /\ user_input = <<>>
  /\ query = <<>>
  /\ no_stream = FALSE
  /\ sent = <<>>
  /\ requests = 0
  /\ chunks = <<>>
  /\ buffer = <<>>
  /\ accumulated_text = <<>>
  /\ live = <<>>
  /\ screen = <<>>
  /\ printed = <<>>
  /\ stderr = <<>>
  /\ renderer = "idle"
  /\ content = <<>>
  /\ exit_code = <<>>
  /\ last = "none"
  /\ prev = [context |-> <<>>, requests |-> 0]
  /\ inputs = 0
  /\ successes = 0

Init == SessionInit /\ LogIdle

\* handle_search up to the first wait on the network: the render mode is
\* chosen, the payload built, the renderer entered and the request issued.
\* clear_new_area() has emptied the console before (and, in no-stream mode,
\* once more inside the renderer).
StartSearch(q, ctx) ==
  /\ query' = q
  /\ no_stream' = NoStream(args, env_aider)
  /\ sent' = ApiMessages(q, PayloadMessages(q, ctx))
  /\ requests' = requests + 1
  /\ chunks' = <<>>
  /\ buffer' = <<>>
  /\ accumulated_text' = <<>>
  /\ live' = IF NoStream(args, env_aider) THEN Spinner ELSE <<>>
  /\ screen' = IF NoStream(args, env_aider) THEN Spinner ELSE <<>>
  /\ printed' = <<>>
  /\ renderer' = "running"
  /\ content' = <<>>
  /\ pc' = "fetch"

\* main: parse_arguments, setup_signal_handler or the update check raises
MainStartupError(e) ==
  /\ pc = "start"
  /\ pc' = "exited"
  /\ printed' = Append(printed, ErrorLine(e))
  /\ stderr' = Append(stderr, e)
  /\ exit_code' = <<MainExit(TRUE)>>
  /\ last' = "startup_error"
  /\ UNCHANGED <<args, env_aider, context, user_input, query, no_stream, sent,
                 requests, chunks, buffer, accumulated_text, live, screen,
                 renderer, content, prev, inputs, successes>>
  /\ UNCHANGED logvars

\* main, query is None: handle_interactive_mode(args) up to the first prompt
MainInteractive ==
  /\ pc = "start"
  /\ args.interactive
  /\ context' = <<>>
  /\ printed' = Append(printed, Info("interactive"))
  /\ pc' = "prompt"
  /\ UNCHANGED <<args, env_aider, user_input, query, no_stream, sent, requests,
                 chunks, buffer, accumulated_text, live, screen, stderr,
                 renderer, content, exit_code, last, prev, inputs, successes>>
  /\ UNCHANGED logvars

\* main, query given: clear_new_area(); handle_search(query, args)
MainSingle ==
  /\ pc = "start"
  /\ ~args.interactive
  /\ StartSearch(args.query, <<>>)
  /\ last' = "submitted"
  /\ UNCHANGED <<args, env_aider, context, user_input, stderr, exit_code,
                 prev, inputs, successes>>
  /\ UNCHANGED logvars

\* the loop reads a blank line: warning, continue
InputBlank(inp) ==
  /\ pc = "prompt"
  /\ inputs < MaxInputs
  /\ IsBlank(inp)
  /\ user_input' = inp
  /\ inputs' = inputs + 1
  /\ prev' = [context |-> context, requests |-> requests]
  /\ printed' = Append(printed, Info("please enter a query"))
  /\ last' = "blank"
  /\ UNCHANGED <<pc, args, env_aider, context, query, no_stream, sent,
                 requests, chunks, buffer, accumulated_text, live, screen,
                 stderr, renderer, content, exit_code, successes>>
  /\ UNCHANGED logvars

\* the loop reads "exit": message, break; main returns
InputExit(inp) ==
  /\ pc = "prompt"
  /\ inputs < MaxInputs
  /\ ~IsBlank(inp)
  /\ IsExit(inp)
  /\ user_input' = inp
  /\ inputs' = inputs + 1
  /\ prev' = [context |-> context, requests |-> requests]
  /\ printed' = Append(printed, Info("exiting"))
  /\ pc' = "exited"
  /\ exit_code' = <<MainExit(FALSE)>>
  /\ last' = "exit"
  /\ UNCHANGED <<args, env_aider, context, query, no_stream, sent, requests,
                 chunks, buffer, accumulated_text, live, screen, stderr,
                 renderer, content, successes>>
  /\ UNCHANGED logvars

\* the loop reads a query: clear_new_area(); context.append(user turn);
\* handle_search(user_input, args, context)
InputQuery(inp) ==
  /\ pc = "prompt"
  /\ inputs < MaxInputs
  /\ ~IsBlank(inp)
  /\ ~IsExit(inp)
  /\ user_input' = inp
  /\ inputs' = inputs + 1
  /\ prev' = [context |-> context, requests |-> requests]
  /\ context' = AppendTurn(context, UserTurn(inp))
  /\ StartSearch(inp, AppendTurn(context, UserTurn(inp)))
  /\ last' = "submitted"
  /\ UNCHANGED <<args, env_aider, stderr, exit_code, successes>>
  /\ UNCHANGED logvars

\* one iteration of "for chunk in perform_search(...)"
Chunk(chunk) ==
  /\ pc = "fetch"
  /\ Len(chunks) < MaxChunks
  /\ chunks' = Append(chunks, chunk)
  /\ IF no_stream
       THEN /\ buffer' = Append(buffer, chunk)
            /\ UNCHANGED <<accumulated_text, live>>
       ELSE /\ accumulated_text' = Accumulate(accumulated_text, chunk)
            /\ live' = Labelled(Accumulate(accumulated_text, chunk))
            /\ UNCHANGED buffer
  /\ UNCHANGED <<pc, args, env_aider, context, user_input, query, no_stream,
                 sent, requests, screen, printed, stderr, renderer, content,
                 exit_code, last, prev, inputs, successes>>
  /\ UNCHANGED logvars

\* the Live display refreshes (refresh_per_second=10)
Refresh ==
  /\ pc = "fetch"
  /\ screen # live
  /\ screen' = live
  /\ UNCHANGED <<pc, args, env_aider, context, user_input, query, no_stream,
                 sent, requests, chunks, buffer, accumulated_text, live,
                 printed, stderr, renderer, content, exit_code, last, prev,
                 inputs, successes>>
  /\ UNCHANGED logvars

\* leaving "with Live(...)": transient=True erases the region, transient=False
\* refreshes a last time and leaves it on the screen
LiveExit == IF no_stream THEN <<>> ELSE live

\* the fragment sequence is exhausted: the renderer returns, and its caller
\* (the loop or main) goes on
Complete ==
  /\ pc = "fetch"
  /\ LET text == IF no_stream THEN Join(buffer) ELSE accumulated_text IN
       /\ content' = text
       /\ printed' = IF no_stream
                       THEN Append(printed, Response(Labelled(text)))
                       ELSE printed
       /\ IF args.interactive
            THEN /\ context' = AppendTurn(context, AssistantTurn(text))
                 /\ pc' = "prompt"
                 /\ UNCHANGED exit_code
            ELSE /\ pc' = "exited"
                 /\ exit_code' = <<MainExit(FALSE)>>
                 /\ UNCHANGED context
  /\ screen' = LiveExit
  /\ renderer' = "returned"
  /\ last' = "success"
  /\ successes' = successes + 1
  /\ UNCHANGED <<args, env_aider, user_input, query, no_stream, sent, requests,
                 chunks, buffer, accumulated_text, live, stderr, prev, inputs>>
  /\ UNCHANGED logvars

\* perform_search raises while the renderer iterates: nothing catches it in
\* the renderer or in handle_search; the loop's (or main's) except branch runs
Fail(e) ==
  /\ pc = "fetch"
  /\ screen' = LiveExit
  /\ renderer' = "raised"
  /\ printed' = Append(printed, ErrorLine(e))
  /\ stderr' = Append(stderr, e)
  /\ IF args.interactive
       THEN /\ pc' = "prompt"
            /\ UNCHANGED exit_code
       ELSE /\ pc' = "exited"
            /\ exit_code' = <<MainExit(TRUE)>>
  /\ last' = "failure"
  /\ UNCHANGED <<args, env_aider, context, user_input, query, no_stream, sent,
                 requests, chunks, buffer, accumulated_text, live, content,
                 prev, inputs, successes>>
  /\ UNCHANGED logvars

\* SIGINT: handle_interrupt prints and calls sys.exit(0); SystemExit is not
\* an Exception, so no except branch of core.py catches it
Interrupt ==
  /\ pc \in {"prompt", "fetch"}
  /\ printed' = Append(printed, Info("interrupted"))
  /\ screen' = IF pc = "fetch" THEN LiveExit ELSE screen
  /\ pc' = "exited"
  /\ exit_code' = <<0>>
  /\ last' = "interrupt"
  /\ UNCHANGED <<args, env_aider, context, user_input, query, no_stream, sent,
                 requests, chunks, buffer, accumulated_text, live, stderr,
                 renderer, content, prev, inputs, successes>>
  /\ UNCHANGED logvars

Next ==
  \/ \E e \in Errors : MainStartupError(e)
  \/ MainInteractive
  \/ MainSingle
  \/ \E inp \in Inputs : InputBlank(inp)
  \/ \E inp \in Inputs : InputExit(inp)
  \/ \E inp \in Inputs : InputQuery(inp)
  \/ \E chunk \in Fragments : Chunk(chunk)
  \/ Refresh
  \/ Complete
  \/ \E e \in Errors : Fail(e)
  \/ Interrupt

Spec == Init /\ [][Next]_vars

\* ------------------------------------------------------------ the logger
\* log_conversation and _write_to_markdown_file are imported from
\* plexsearch.core by tests/test_core.py but are not part of core.py as it
\* stands; they are modelled from the specification (4.4, 6) and from the
\* tests that call them.

\* Turns handed to the logger in one call
MaxLogTurns == 2

\* the contents of logged Turns: quotes, backslashes and line breaks are the
\* characters a JSON string has to escape
LogContents ==
  { <<>>, <<"n">>, <<"\"">>, <<"\\">>, <<"\n">>,
    <<"\\", "n">>, <<"n", "\n", "n">>, <<"\\", "\"">> }

LogTurns == [role : {"user", "assistant"}, content : LogContents]

LogMessageLists == UNION { [1..n -> LogTurns] : n \in 0..MaxLogTurns }

\* the exception messages of a failed open or write
IOErrors == { <<"N", "o">> }

\* json.dumps of one character inside a string
JsonEscapeCharRaw(c) == <<c>>
JsonEscapeChar(c) ==
  CASE c = "\"" -> <<"\\", "\"">>
    [] c = "\\" -> <<"\\", "\\">>
    [] c = "\n" -> <<"\\", "n">>
    [] OTHER -> <<c>>

RECURSIVE JsonEscape(_)
JsonEscape(s) ==
  IF s = <<>> THEN <<>> ELSE JsonEscapeChar(Head(s)) \o JsonEscape(Tail(s))

\* json.dumps of a string
JsonString(s) == <<"\"">> \o JsonEscape(s) \o <<"\"">>

\* json.dumps(message): {"role": "...", "content": "..."}
JsonDumps(m) ==
  <<"{">> \o JsonString(<<"role">>) \o <<": ">> \o JsonString(<<m.role>>)
    \o <<", ">> \o JsonString(<<"content">>) \o <<": ">>
    \o JsonString(m.content) \o <<"}">>

\* one record of the log file: f.write(json.dumps(message) + "\n")
LogLine(m) == JsonDumps(m) \o <<"\n">>

RECURSIVE LogLines(_)
LogLines(ms) ==
  IF ms = <<>> THEN <<>> ELSE LogLine(Head(ms)) \o LogLines(Tail(ms))

\* role.capitalize()
Capitalize(role) ==
  CASE role = "user" -> "User"
    [] role = "assistant" -> "Assistant"
    [] role = "system" -> "System"
    [] OTHER -> role

\* _format_message_to_markdown(message): "**Role**: content\n\n"
FormatMessageToMarkdown(m) ==
  <<"**", Capitalize(m.role), "**: ">> \o m.content \o <<"\n", "\n">>

RECURSIVE MarkdownBlocks(_)
MarkdownBlocks(ms) ==
  IF ms = <<>> THEN <<>>
  ELSE FormatMessageToMarkdown(Head(ms)) \o MarkdownBlocks(Tail(ms))

\* the except branch of the logger: console.print("[red]Error writing to
\* <what> file: <e>[/red]")
LogErrorSilent(out, what, e) == out
LogErrorReport(out, what, e) ==
  Append(out, [kind |-> "error", what |-> what, text |-> e])

\* "except (IOError, ...) as e" of the logger: the errors it catches
CatchesNothing(e) == FALSE
CatchesIOError(e) == e \in IOErrors

\* --- reading the log back: [json.loads(line) for line in f]

\* the lines of a text file, each with its line break
RECURSIVE SplitLines(_, _)
SplitLines(f, line) ==
  IF f = <<>> THEN (IF line = <<>> THEN <<>> ELSE <<line>>)
  ELSE IF Head(f) = "\n"
    THEN <<Append(line, "\n")>> \o SplitLines(Tail(f), <<>>)
    ELSE SplitLines(Tail(f), Append(line, Head(f)))

JsonUnescapeChar(c) == IF c = "n" THEN "\n" ELSE c

NoString == [ok |-> FALSE, value |-> <<>>, next |-> 0]

\* the JSON string whose opening quote is s[i - 1]: its value and the index
\* after its closing quote
RECURSIVE ScanString(_, _, _)
ScanString(s, i, acc) ==
  IF i > Len(s) \/ s[i] = "\n" THEN NoString
  ELSE IF s[i] = "\"" THEN [ok |-> TRUE, value |-> acc, next |-> i + 1]
  ELSE IF s[i] = "\\"
    THEN IF i + 1 > Len(s) \/ s[i + 1] \notin {"\"", "\\", "n"}
           THEN NoString
           ELSE ScanString(s, i + 2, Append(acc, JsonUnescapeChar(s[i + 1])))
  ELSE ScanString(s, i + 1, Append(acc, s[i]))

ParseString(s, i) ==
  IF i > Len(s) \/ s[i] # "\"" THEN NoString ELSE ScanString(s, i + 1, <<>>)

Expect(s, i, tok) == i >= 1 /\ i <= Len(s) /\ s[i] = tok

\* what json.loads raises on, as a value
JsonDecodeError == [role |-> "JSONDecodeError", content |-> <<>>]

\* json.loads(line) for an object with the keys role and content
JsonLoads(line) ==
  LET k1 == ParseString(line, 2)
      v1 == ParseString(line, k1.next + 1)
      k2 == ParseString(line, v1.next + 1)
      v2 == ParseString(line, k2.next + 1)
  IN IF /\ Expect(line, 1, "{")
        /\ k1.ok /\ k1.value = <<"role">> /\ Expect(line, k1.next, ": ")
        /\ v1.ok /\ Len(v1.value) = 1 /\ Expect(line, v1.next, ", ")
        /\ k2.ok /\ k2.value = <<"content">> /\ Expect(line, k2.next, ": ")
        /\ v2.ok /\ Expect(line, v2.next, "}")
        /\ \A j \in (v2.next + 1)..Len(line) : line[j] \in {"\n", " "}
       THEN [role |-> v1.value[1], content |-> v2.value]
       ELSE JsonDecodeError

ReadLog(f) ==
  LET ls == SplitLines(f, <<>>) IN [i \in 1..Len(ls) |-> JsonLoads(ls[i])]

\* --- the logger as a state machine

\* a caller is about to log a list of Turns; the log file is new or already
\* holds a record (append mode)
LogStart ==
  /\ lpc = "start"
  /\ messages \in LogMessageLists
  /\ log_file \in { <<>>, LogLine(UserTurn(<<"n">>)) }
  /\ log_before = log_file
  /\ md_file = <<>>
  /\ log_printed = <<>>
  /\ log_raised = FALSE
  /\ log_fault = "none"
  /\ md_fault = "none"
  /\ logged_back = <<>>

\* the session does not run while the logger is exercised
SessionIdle ==
  /\ SessionInit
  /\ args.interactive /\ ~args.no_stream /\ ~env_aider

\* log_conversation(log_file, messages): every record written
LogConversation ==
  /\ lpc = "start"
  /\ log_file' = log_file \o LogLines(messages)
  /\ lpc' = "logged"
  /\ UNCHANGED <<messages, md_file, log_printed, log_raised, log_fault,
                 md_fault, log_before, logged_back>>
  /\ UNCHANGED vars

\* log_conversation: open() raises; the except branch reports it
LogConversationOpenFails(e) ==
  /\ lpc = "start"
  /\ log_fault' = "open"
  /\ log_printed' = IF CatchesIOError(e)
                      THEN LogErrorReport(log_printed, "log", e)
                      ELSE log_printed
  /\ log_raised' = ~CatchesIOError(e)
  /\ lpc' = IF CatchesIOError(e) THEN "logged" ELSE "aborted"
  /\ UNCHANGED <<messages, log_file, md_file, md_fault,
                 log_before, logged_back>>
  /\ UNCHANGED vars

\* log_conversation: write() raises after k records; the except branch
\* reports it
LogConversationWriteFails(k, e) ==
  /\ lpc = "start"
  /\ k < Len(messages)
  /\ log_file' = log_file \o LogLines(SubSeq(messages, 1, k))
  /\ log_fault' = "write"
  /\ log_printed' = IF CatchesIOError(e)
                      THEN LogErrorReport(log_printed, "log", e)
                      ELSE log_printed
  /\ log_raised' = ~CatchesIOError(e)
  /\ lpc' = IF CatchesIOError(e) THEN "logged" ELSE "aborted"
  /\ UNCHANGED <<messages, md_file, md_fault, log_before,
                 logged_back>>
  /\ UNCHANGED vars

\* _write_to_markdown_file(markdown_file, messages): every block written
WriteToMarkdownFile ==
  /\ lpc = "logged"
  /\ md_file' = md_file \o MarkdownBlocks(messages)
  /\ lpc' = "transcribed"
  /\ UNCHANGED <<messages, log_file, log_printed, log_raised, log_fault,
                 md_fault, log_before, logged_back>>
  /\ UNCHANGED vars

\* _write_to_markdown_file: open() or write() raises after k blocks; the
\* except branch reports it
WriteToMarkdownFileFails(k, e) ==
  /\ lpc = "logged"
  /\ k = 0 \/ k < Len(messages)
  /\ md_file' = md_file \o MarkdownBlocks(SubSeq(messages, 1, k))
  /\ md_fault' = IF k = 0 THEN "open" ELSE "write"
  /\ log_printed' = IF CatchesIOError(e)
                      THEN LogErrorReport(log_printed, "markdown", e)
                      ELSE log_printed
  /\ log_raised' = ~CatchesIOError(e)
  /\ lpc' = IF CatchesIOError(e) THEN "transcribed" ELSE "aborted"
  /\ UNCHANGED <<messages, log_file, log_fault, log_before,
                 logged_back>>
  /\ UNCHANGED vars

\* the log is read back, one json.loads per line
ReadLogBack ==
  /\ lpc = "transcribed"
  /\ logged_back' = ReadLog(log_file)
  /\ lpc' = "read"
  /\ UNCHANGED <<messages, log_file, md_file, log_printed, log_raised,
                 log_fault, md_fault, log_before>>
  /\ UNCHANGED vars

InitLog == SessionIdle /\ LogStart

NextLog ==
  \/ LogConversation
  \/ \E e \in IOErrors : LogConversationOpenFails(e)
  \/ \E k \in 0..MaxLogTurns, e \in IOErrors : LogConversationWriteFails(k, e)
  \/ WriteToMarkdownFile
  \/ \E k \in 0..MaxLogTurns, e \in IOErrors : WriteToMarkdownFileFails(k, e)
  \/ ReadLogBack

SpecLog == InitLog /\ [][NextLog]_<<vars, logvars>>

\* ---------------------------------------------------------- the claims
\* f1 + ... + fn, the concatenation the claims speak of
RECURSIVE ConcatAll(_)
ConcatAll(fs) ==
  IF fs = <<>> THEN <<>>
  ELSE ConcatAll(SubSeq(fs, 1, Len(fs) - 1)) \o fs[Len(fs)]

\* the text a display shows after the "Perplexity: " label
ShownText(d) == IF d # <<>> /\ Head(d) = Label[1] THEN Tail(d) ELSE d

\* the input is the word exit in some letter case
IsExitWord(s) ==
  /\ Len(s) = 4
  /\ s[1] \in {"e", "E"} /\ s[2] \in {"x", "X"}
  /\ s[3] \in {"i", "I"} /\ s[4] \in {"t", "T"}

\* the input is empty or only whitespace
AllWhitespace(s) == \A i \in 1..Len(s) : s[i] \in Whitespace

ResponsesPrinted == SelectSeq(printed, LAMBDA p : p.kind = "response")
ErrorsPrinted == SelectSeq(printed, LAMBDA p : p.kind = "error")

\* C1: every successful round trip of the interactive session appends
\* exactly the user Turn (content = query) and the assistant Turn (content =
\* the renderer's text), in that order, and after n successful round trips
\* from an empty context the context holds exactly 2n Turns.
C1_TwoTurnsPerSuccessfulRoundTrip ==
  (args.interactive /\ last = "success") =>
    /\ context = prev.context
                   \o <<UserTurn(user_input), AssistantTurn(content)>>
    /\ Len(context) = 2 * successes

\* C2: when the search of an interactive query raises, the context equals
\* the context before the query was entered, the error is reported on the
\* console and on stderr, and the loop prompts again.
C2_FailedExchangeAppendsNothing ==
  (args.interactive /\ last = "failure") =>
    /\ context = prev.context
    /\ ErrorsPrinted # <<>>
    /\ stderr # <<>>
    /\ pc = "prompt"

\* C3: the message list handed to the API is the system message, the prior
\* context in order, and exactly one new user Turn holding the query, last.
C3_QueryOnceAsLastMessage ==
  pc = "fetch" =>
    sent = <<SystemTurn>>
             \o (IF args.interactive THEN prev.context ELSE <<>>)
             \o <<UserTurn(query)>>

\* C4: when the fragment sequence ends with an error after f1..fk, the
\* renderer does not raise: it returns f1 + ... + fk.
C4_RendererReturnsPartialTextOnError ==
  last = "failure" =>
    /\ renderer = "returned"
    /\ content = ConcatAll(chunks)
    /\ ErrorsPrinted # <<>>

\* C5: in streaming mode the text submitted for display after each fragment
\* is the concatenation of the fragments received so far, and on normal
\* completion the renderer returns, and the screen finally shows, exactly
\* f1 + ... + fn, whichever intermediate refreshes happened.
C5_StreamingShowsConcatenation ==
  (~no_stream /\ renderer \in {"running", "returned"}) =>
    /\ accumulated_text = ConcatAll(chunks)
    /\ ShownText(live) = ConcatAll(chunks)
    /\ (chunks # <<>> => live = Labelled(ConcatAll(chunks)))
    /\ renderer = "returned" =>
         /\ content = ConcatAll(chunks)
         /\ screen = live
         /\ ShownText(screen) = ConcatAll(chunks)

C5_Witness ==
  /\ ~no_stream
  /\ renderer = "returned"
  /\ chunks = << <<"a">>, <<"b">> >>
  /\ content = <<"a", "b">>
  /\ screen = <<"Perplexity: ", "a", "b">>

\* C6: in buffered mode nothing of the response is shown while fragments
\* are still being consumed; on normal completion the renderer returns
\* exactly f1 + ... + fn and has printed the response exactly once.
C6_BufferedPrintsOnceAtTheEnd ==
  (no_stream /\ renderer \in {"running", "returned"}) =>
    /\ renderer = "running" =>
         /\ ResponsesPrinted = <<>>
         /\ screen \in {Spinner, <<>>}
    /\ renderer = "returned" =>
         /\ content = ConcatAll(chunks)
         /\ ResponsesPrinted = <<Response(Labelled(ConcatAll(chunks)))>>
         /\ screen = <<>>

C6_Witness ==
  /\ no_stream
  /\ renderer = "returned"
  /\ chunks = << <<"a">>, <<"b">> >>
  /\ content = <<"a", "b">>
  /\ ResponsesPrinted = <<Response(<<"Perplexity: ", "a", "b">>)>>

\* C7: the word exit, in any letter case, ends the loop: no search is
\* issued, no Turn is appended, and the process is over (no further prompt).
C7_ExitEndsLoopWithoutTurn ==
  (inputs > 0 /\ IsExitWord(user_input)) =>
    /\ last = "exit"
    /\ pc = "exited"
    /\ context = prev.context
    /\ requests = prev.requests

C7_Witness ==
  /\ last = "exit"
  /\ user_input = <<"E", "x", "I", "t">>
  /\ context # <<>>
  /\ pc = "exited"

\* C8: an interrupt makes the process exit cleanly, and at exit the context
\* holds no user Turn of the interrupted exchange without its reply.
C8_InterruptLeavesNoPartialTurn ==
  last = "interrupt" =>
    /\ pc = "exited"
    /\ exit_code = <<0>>
    /\ (args.interactive /\ renderer = "running") => context = prev.context

\* C9: in single-query mode the exit code is non-zero when the search fails
\* and 0 when the turn succeeds; in interactive mode a failed search does
\* not end the process.
C9_ExitCodeReflectsFailure ==
  /\ (~args.interactive /\ last = "failure") =>
       (pc = "exited" /\ exit_code # <<>> /\ exit_code[1] # 0)
  /\ (~args.interactive /\ last = "success") =>
       (pc = "exited" /\ exit_code = <<0>>)
  /\ (args.interactive /\ last = "failure") =>
       (pc = "prompt" /\ exit_code = <<>>)

C9_Witness ==
  /\ ~args.interactive
  /\ last = "failure"
  /\ chunks # <<>>
  /\ exit_code = <<1>>

\* C10: an input that is empty or only whitespace is not submitted: no
\* request is issued, the context is unchanged and the loop prompts again.
C10_BlankInputNotSubmitted ==
  (inputs > 0 /\ AllWhitespace(user_input)) =>
    /\ last \in {"blank", "interrupt"}
    /\ context = prev.context
    /\ requests = prev.requests
    /\ (last = "blank" => pc = "prompt")

C10_Witness ==
  /\ last = "blank"
  /\ user_input = <<"\t", " ">>
  /\ context # <<>>
  /\ pc = "prompt"

\* xs is a prefix of ys
IsPrefix(xs, ys) == Len(xs) <= Len(ys) /\ SubSeq(ys, 1, Len(xs)) = xs

\* C11: the context is append-only: in every step of a session (successful
\* turn, failed turn, blank input, exit, interrupt) the context before the
\* step is a prefix of the context after it, so no Turn is ever removed,
\* reordered, rewritten or deduplicated.
C11_ContextAppendOnly == [][IsPrefix(context, context')]_vars

C11_Witness ==
  /\ args.interactive
  /\ last = "success"
  /\ context = <<UserTurn(<<"q">>), UserTurn(<<"q">>),
                 AssistantTurn(<<"a", "b">>)>>

LogErrorsPrinted(what) ==
  SelectSeq(log_printed, LAMBDA p : p.kind = "error" /\ p.what = what)

\* C12: logging is best-effort: when the log file or the Markdown transcript
\* cannot be opened or written, the logger reports the error on the console,
\* raises nothing, and its caller goes on.
C12_LoggingIsBestEffort ==
  /\ ~log_raised
  /\ lpc # "aborted"
  /\ log_fault # "none" =>
       /\ lpc \in {"logged", "transcribed", "read"}
       /\ LogErrorsPrinted("log") # <<>>
  /\ md_fault # "none" =>
       /\ lpc \in {"transcribed", "read"}
       /\ LogErrorsPrinted("markdown") # <<>>

C12_Witness ==
  /\ lpc = "read"
  /\ log_fault = "write"
  /\ md_fault = "open"
  /\ Len(messages) = 2
  /\ Len(LogErrorsPrinted("log")) = 1
  /\ Len(LogErrorsPrinted("markdown")) = 1

\* C13: a list of Turns appended to an empty log and read back with one
\* JSON parse per line is the same list, in the same order.
C13_LogRoundTrip ==
  (lpc = "read" /\ log_before = <<>> /\ log_fault = "none") =>
    logged_back = messages

C13_Witness ==
  /\ lpc = "read"
  /\ log_before = <<>>
  /\ log_fault = "none"
  /\ messages = << [role |-> "user", content |-> <<"\\", "n">>],
                   [role |-> "assistant", content |-> <<"n", "\n", "n">>] >>
  /\ logged_back = messages

====
